---- MODULE Spec2Model ----
(* dospawn: a job runner that creates droplets, starts the queued tasks on  *)
(* them over ssh, polls them, fetches their results and deletes the         *)
(* droplets.  The state file (a serialised Job) is re-read on every start.  *)
(*                                                                          *)
(* Two specifications:                                                      *)
(*   Spec        main() of src/src/main.rs step by step, with the process   *)
(*               being killed and restarted from the state file;            *)
(*   ExpandSpec  the pure queue functions (next_task, max_machines) of      *)
(*               src/src/job.rs (range scheme) and src/src/main.rs (repeat   *)
(*               scheme) applied to bounded queues until they are drained.  *)
EXTENDS Integers, Sequences, FiniteSets

VARIABLES
    pc,          \* position of the process in main(), or done / aborted / killed
    ret,         \* where main() continues after the job.write in progress
    job,         \* the in-memory Job: [machines, tasks]
    config,      \* job.config.max_machines (never written by the program)
    file,        \* the state file: [ok, machines, tasks]
    idx,         \* `idx` of the pass over job.machines (0-based)
    bi,          \* position of `for machine in &job.machines` (0-based)
    finished,    \* `finished`, the result of task.check
    runs,        \* number of times the process has been started
    created,     \* history: number of successful remote creates, all runs
    live,        \* remote: ids of the droplets that exist
    deleted,     \* history: ids of the droplets deleted remotely
    startLog,    \* history: the remote starts, in order: [id, name, cmd]
    lastOp,      \* history: the last remote operation issued: [kind, id]
    lastWritten, \* history: the content of the last write that succeeded
    finishedObs, \* history: names of the tasks whose slot was cleared
    tasks0,      \* history: the queue of the initial state file
    everAborted, \* history: some run ended in an error
    booted,      \* history: ids of the machines whose bootstrap was completed
    passStart,   \* history: ids of job.machines, in order, when the pass began
    passLog,     \* history: ids of the machines examined in this pass, in order
    xscheme,     \* ExpandSpec: "range" (job.rs) or "repeat" (main.rs)
    xq0,         \* ExpandSpec: the queue the expansion started from
    xq,          \* ExpandSpec: the queue
    xout         \* ExpandSpec: the instances returned so far, in order

mainVars == <<pc, ret, job, config, file, idx, bi, finished, runs, created,
              live, deleted, startLog, lastOp, lastWritten, finishedObs, tasks0,
              everAborted, booted, passStart, passLog>>
expandVars == <<xscheme, xq0, xq, xout>>
vars == <<pc, ret, job, config, file, idx, bi, finished, runs, created,
          live, deleted, startLog, lastOp, lastWritten, finishedObs, tasks0,
          everAborted, booted, passStart, passLog, xscheme, xq0, xq, xout>>

----------------------------------------------------------------------------
(* Bounds *)

\* largest `repeat` of a template in the initial queue of Spec
MaxRepeat == 2
\* largest config.max_machines
MaxCfgMachines == 2
\* how many times the process is started (first start included)
MaxRuns == 3
\* largest width of the range of a template in ExpandSpec
MaxWidth == 3

----------------------------------------------------------------------------
(* Option<T>: None is the empty sequence, Some(x) the one-element one *)

None == <<>>
Some(x) == <<x>>
IsSome(o) == o # <<>>
Unwrap(o) == o[1]

Min(a, b) == IF a < b THEN a ELSE b
Max(a, b) == IF a > b THEN a ELSE b

RECURSIVE SumSeq(_)
SumSeq(s) == IF s = <<>> THEN 0 ELSE Head(s) + SumSeq(Tail(s))

RECURSIVE Concat(_)
Concat(ss) == IF ss = <<>> THEN <<>> ELSE Head(ss) \o Concat(Tail(ss))

----------------------------------------------------------------------------
(* Strings are sequences of tokens: one-character strings and the           *)
(* placeholder "{{index}}"                                                  *)

Digits == <<"0", "1", "2", "3", "4", "5", "6", "7", "8", "9">>
Placeholder == "{{index}}"

\* usize::to_string / format!("{}", n): the decimal digits of n
RECURSIVE ToString(_)
ToString(n) ==
    IF n < 10 THEN <<Digits[n + 1]>>
    ELSE ToString(n \div 10) \o <<Digits[(n % 10) + 1]>>

\* str::replace("{{index}}", index): every occurrence is replaced
Replace(s, index) ==
    Concat([i \in DOMAIN s |-> IF s[i] = Placeholder THEN index ELSE <<s[i]>>])

----------------------------------------------------------------------------
(* Task: [name, cmd, repeat, range].  main.rs and task.rs declare `repeat`, *)
(* job.rs reads `range` (Some([start, end])).                               *)

Task(name, cmd, repeat, range) ==
    [name |-> name, cmd |-> cmd, repeat |-> repeat, range |-> range]

\* main.rs next_task: the counted scheme
MainNextTask(tasks) ==
    IF tasks = <<>> THEN [task |-> None, tasks |-> tasks]
    ELSE LET task == Head(tasks)
             rest == Tail(tasks)
         IN IF IsSome(task.repeat)
            THEN LET repeat == Unwrap(task.repeat)
                     pushed == IF repeat > 1
                               THEN Append(rest, [task EXCEPT !.repeat = Some(repeat - 1)])
                               ELSE rest
                 IN [task  |-> Some([task EXCEPT !.name = task.name \o <<"_">> \o ToString(repeat),
                                                  !.repeat = None]),
                     tasks |-> pushed]
            ELSE [task |-> Some(task), tasks |-> rest]

\* main.rs Job::max_machines: the counted scheme
MainMaxMachines(tasks, max_machines) ==
    LET max_tasks == SumSeq([i \in DOMAIN tasks |->
                                IF IsSome(tasks[i].repeat)
                                THEN Max(Unwrap(tasks[i].repeat), 1)
                                ELSE 1])
    IN Min(max_tasks, max_machines)

\* a bug: the residual is re-enqueued also when one instance remains
JobNextTaskOffByOne(tasks) ==
    IF tasks = <<>> THEN [task |-> None, tasks |-> tasks]
    ELSE LET task == Head(tasks)
             rest == Tail(tasks)
         IN IF IsSome(task.range)
            THEN LET range == Unwrap(task.range)
                     pushed == IF range.end - range.start >= 1
                               THEN Append(rest, [task EXCEPT !.range =
                                        Some([range EXCEPT !.start = range.start + 1])])
                               ELSE rest
                     index == ToString(range.start)
                 IN [task  |-> Some([task EXCEPT !.name = Replace(task.name, index),
                                                  !.cmd = Replace(task.cmd, index)]),
                     tasks |-> pushed]
            ELSE [task |-> Some(task), tasks |-> rest]

\* a bug: the residual is put back at the head of the queue
JobNextTaskPushFront(tasks) ==
    IF tasks = <<>> THEN [task |-> None, tasks |-> tasks]
    ELSE LET task == Head(tasks)
             rest == Tail(tasks)
         IN IF IsSome(task.range)
            THEN LET range == Unwrap(task.range)
                     pushed == IF range.end - range.start > 1
                               THEN <<[task EXCEPT !.range =
                                        Some([range EXCEPT !.start = range.start + 1])]>> \o rest
                               ELSE rest
                     index == ToString(range.start)
                 IN [task  |-> Some([task EXCEPT !.name = Replace(task.name, index),
                                                  !.cmd = Replace(task.cmd, index)]),
                     tasks |-> pushed]
            ELSE [task |-> Some(task), tasks |-> rest]

\* job.rs Job::next_task: the range scheme
JobNextTask(tasks) ==
    IF tasks = <<>> THEN [task |-> None, tasks |-> tasks]
    ELSE LET task == Head(tasks)
             rest == Tail(tasks)
         IN IF IsSome(task.range)
            THEN LET range == Unwrap(task.range)
                     pushed == IF range.end - range.start > 1
                               THEN Append(rest, [task EXCEPT !.range =
                                        Some([range EXCEPT !.start = range.start + 1])])
                               ELSE rest
                     index == ToString(range.start)
                 IN [task  |-> Some([task EXCEPT !.name = Replace(task.name, index),
                                                  !.cmd = Replace(task.cmd, index)]),
                     tasks |-> pushed]
            ELSE [task |-> Some(task), tasks |-> rest]

\* a bug: the range is counted as if it were closed
JobMaxMachinesInclusive(tasks, max_machines) ==
    LET max_tasks == SumSeq([i \in DOMAIN tasks |->
                                IF IsSome(tasks[i].range)
                                THEN Unwrap(tasks[i].range).end - Unwrap(tasks[i].range).start + 1
                                ELSE 1])
    IN Min(max_tasks, max_machines)

\* job.rs Job::max_machines: the range scheme
JobMaxMachines(tasks, max_machines) ==
    LET max_tasks == SumSeq([i \in DOMAIN tasks |->
                                IF IsSome(tasks[i].range)
                                THEN Unwrap(tasks[i].range).end - Unwrap(tasks[i].range).start
                                ELSE 1])
    IN Min(max_tasks, max_machines)

----------------------------------------------------------------------------
(* Machine: [name, id, task].  `name` is the pool length at creation, `id`  *)
(* the identity the provider assigned (`ip` comes and goes with it).        *)

Machine(name, id) == [name |-> name, id |-> id, task |-> None]

\* Vec::remove(idx), idx 0-based: order-preserving
Remove(s, i) == SubSeq(s, 1, i) \o SubSeq(s, i + 2, Len(s))

\* the Job the state file holds; an unreadable file deserialises to nothing
Snapshot(j) == [ok |-> TRUE, machines |-> j.machines, tasks |-> j.tasks]
Truncated == [ok |-> FALSE, machines |-> <<>>, tasks |-> <<>>]

NoOp == [kind |-> "none", id |-> 0]
Op(kind, id) == [kind |-> kind, id |-> id]

Running == pc \notin {"done", "aborted", "killed"}

\* the templates of the initial queue: "a", counted or not, and "b"
TemplateA(repeat) == Task(<<"a">>, <<"x">>, repeat, None)
TemplateB == Task(<<"b">>, <<"y">>, None, None)
Repeats == {None} \cup {Some(r) : r \in 0..MaxRepeat}
Queues ==
    {<<>>, <<TemplateB>>}
    \cup {<<TemplateA(r)>> : r \in Repeats}
    \cup {<<TemplateA(r), TemplateB>> : r \in Repeats}

ExpandIdle ==
    /\ xscheme = "none"
    /\ xq0 = <<>>
    /\ xq = <<>>
    /\ xout = <<>>

Init ==
    /\ pc = "read"
    /\ ret = "none"
    /\ job = [machines |-> <<>>, tasks |-> <<>>]
    /\ config \in 0..MaxCfgMachines
    /\ tasks0 \in Queues
    /\ file = [ok |-> TRUE, machines |-> <<>>, tasks |-> tasks0]
    /\ idx = 0
    /\ bi = 0
    /\ finished = FALSE
    /\ runs = 1
    /\ created = 0
    /\ live = {}
    /\ deleted = {}
    /\ startLog = <<>>
    /\ lastOp = NoOp
    /\ lastWritten = file
    /\ finishedObs = {}
    /\ everAborted = FALSE
    /\ booted = {}
    /\ passStart = <<>>
    /\ passLog = <<>>
    /\ ExpandIdle

\* a `?` that returns the error from main: the process exits non-zero
Abort ==
    /\ pc' = "aborted"
    /\ everAborted' = TRUE
    /\ UNCHANGED <<ret, job, config, idx, bi, finished, runs, tasks0>>

----------------------------------------------------------------------------
(* The remote side: ssh, scp, rsync and doctl delete succeed only on a       *)
(* droplet that exists.  task.check (main.rs 275-295) returns               *)
(* Ok(!ssh.success()): when ssh itself fails, the task counts as finished.  *)

Reachable(machine) == machine.id \in live

CheckResult(machine, pidof_failed) == IF Reachable(machine) THEN pidof_failed ELSE TRUE

(* main() calls next_task and job.max_machines(): main.rs holds the counted  *)
(* versions, job.rs the range versions.  Spec runs main() with those of      *)
(* main.rs, ScenarioSpec with those of job.rs.                               *)

LoopNextTask(tasks) ==
    IF xscheme = "range" THEN JobNextTask(tasks) ELSE MainNextTask(tasks)

LoopMaxMachines(tasks, max_machines) ==
    IF xscheme = "range" THEN JobMaxMachines(tasks, max_machines)
    ELSE MainMaxMachines(tasks, max_machines)

(* main.rs 16: Job::read *)

Read ==
    /\ pc = "read"
    /\ file.ok
    /\ job' = [machines |-> file.machines, tasks |-> file.tasks]
    /\ pc' = "provision"
    /\ UNCHANGED <<ret, config, file, idx, bi, finished, runs, created, live, deleted,
                   startLog, lastOp, lastWritten, finishedObs, tasks0,
                   everAborted, booted, passLog, passStart, expandVars>>

ReadFail ==
    /\ pc = "read"
    /\ ~file.ok
    /\ Abort
    /\ UNCHANGED <<file, created, live, deleted, startLog, lastOp, lastWritten,
                   finishedObs, booted, passLog, passStart, expandVars>>

(* main.rs 18-26: the provisioning loop *)

ProvisionGuard == Len(job.machines) < LoopMaxMachines(job.tasks, config)

NewId == created + 1

Create ==
    /\ pc = "provision"
    /\ ProvisionGuard
    /\ created' = created + 1
    /\ live' = live \cup {NewId}
    /\ lastOp' = Op("create", NewId)
    /\ job' = [job EXCEPT !.machines = Append(@, Machine(Len(job.machines), NewId))]
    /\ pc' = "write"
    /\ ret' = "provision"
    /\ UNCHANGED <<config, file, idx, bi, finished, runs, deleted, startLog,
                   lastWritten, finishedObs, tasks0,
                   everAborted, booted, passLog, passStart, expandVars>>

CreateFail ==
    /\ pc = "provision"
    /\ ProvisionGuard
    /\ lastOp' = Op("create", 0)
    /\ Abort
    /\ UNCHANGED <<file, created, live, deleted, startLog, lastWritten,
                   finishedObs, booted, passLog, passStart, expandVars>>

ProvisionDone ==
    /\ pc = "provision"
    /\ ~ProvisionGuard
    /\ pc' = "bootstrap"
    /\ bi' = 0
    /\ UNCHANGED <<ret, job, config, file, idx, finished, runs, created, live, deleted,
                   startLog, lastOp, lastWritten, finishedObs, tasks0,
                   everAborted, booted, passLog, passStart, expandVars>>

(* main.rs 96-100: Job::write is std::fs::write, that is File::create,      *)
(* which truncates the file, followed by write_all                          *)

WriteOpen ==
    /\ pc = "write"
    /\ file' = Truncated
    /\ pc' = "write_all"
    /\ UNCHANGED <<ret, job, config, idx, bi, finished, runs, created, live, deleted,
                   startLog, lastOp, lastWritten, finishedObs, tasks0,
                   everAborted, booted, passLog, passStart, expandVars>>

WriteOpenFail ==
    /\ pc = "write"
    /\ Abort
    /\ UNCHANGED <<file, created, live, deleted, startLog, lastOp, lastWritten,
                   finishedObs, booted, passLog, passStart, expandVars>>

WriteAll ==
    /\ pc = "write_all"
    /\ file' = Snapshot(job)
    /\ lastWritten' = Snapshot(job)
    /\ pc' = ret
    /\ ret' = "none"
    /\ UNCHANGED <<job, config, idx, bi, finished, runs, created, live, deleted,
                   startLog, lastOp, finishedObs, tasks0,
                   everAborted, booted, passLog, passStart, expandVars>>

WriteAllFail ==
    /\ pc = "write_all"
    /\ Abort
    /\ UNCHANGED <<file, created, live, deleted, startLog, lastOp, lastWritten,
                   finishedObs, booted, passLog, passStart, expandVars>>

(* main.rs 28-33: install and copy on every machine whose slot is empty *)

BootMachine == job.machines[bi + 1]

BootInstall ==
    /\ pc = "bootstrap"
    /\ bi < Len(job.machines)
    /\ BootMachine.task = None
    /\ Reachable(BootMachine)
    /\ lastOp' = Op("install", BootMachine.id)
    /\ pc' = "copy"
    /\ UNCHANGED <<ret, job, config, file, idx, bi, finished, runs, created, live,
                   deleted, startLog, lastWritten, finishedObs, tasks0,
                   everAborted, booted, passLog, passStart, expandVars>>

BootInstallFail ==
    /\ pc = "bootstrap"
    /\ bi < Len(job.machines)
    /\ BootMachine.task = None
    /\ lastOp' = Op("install", BootMachine.id)
    /\ Abort
    /\ UNCHANGED <<file, created, live, deleted, startLog, lastWritten,
                   finishedObs, booted, passLog, passStart, expandVars>>

BootCopy ==
    /\ pc = "copy"
    /\ Reachable(BootMachine)
    /\ lastOp' = Op("copy", BootMachine.id)
    /\ bi' = bi + 1
    /\ pc' = "bootstrap"
    /\ booted' = booted \cup {BootMachine.id}
    /\ UNCHANGED <<ret, job, config, file, idx, finished, runs, created, live,
                   deleted, startLog, lastWritten, finishedObs, tasks0,
                   everAborted, passLog, passStart, expandVars>>

BootCopyFail ==
    /\ pc = "copy"
    /\ lastOp' = Op("copy", BootMachine.id)
    /\ Abort
    /\ UNCHANGED <<file, created, live, deleted, startLog, lastWritten,
                   finishedObs, booted, passLog, passStart, expandVars>>

BootSkip ==
    /\ pc = "bootstrap"
    /\ bi < Len(job.machines)
    /\ BootMachine.task # None
    /\ bi' = bi + 1
    /\ UNCHANGED <<pc, ret, job, config, file, idx, finished, runs, created, live, deleted,
                   startLog, lastOp, lastWritten, finishedObs, tasks0,
                   everAborted, booted, passLog, passStart, expandVars>>

BootDone ==
    /\ pc = "bootstrap"
    /\ bi >= Len(job.machines)
    /\ pc' = "loop"
    /\ UNCHANGED <<ret, job, config, file, idx, bi, finished, runs, created, live, deleted,
                   startLog, lastOp, lastWritten, finishedObs, tasks0,
                   everAborted, booted, passLog, passStart, expandVars>>

(* main.rs 35-36, 74-77: the outer loop *)

LoopEnter ==
    /\ pc = "loop"
    /\ job.machines # <<>>
    /\ idx' = 0
    /\ pc' = "pass"
    /\ passStart' = [i \in DOMAIN job.machines |-> job.machines[i].id]
    /\ passLog' = <<>>
    /\ UNCHANGED <<ret, job, config, file, bi, finished, runs, created, live, deleted,
                   startLog, lastOp, lastWritten, finishedObs, tasks0,
                   everAborted, booted, expandVars>>

LoopExit ==
    /\ pc = "loop"
    /\ job.machines = <<>>
    /\ pc' = "done"
    /\ UNCHANGED <<ret, job, config, file, idx, bi, finished, runs, created, live, deleted,
                   startLog, lastOp, lastWritten, finishedObs, tasks0,
                   everAborted, booted, passLog, passStart, expandVars>>

\* main.rs 38, 74: the pass is over; sleep, then the next one
PassEnd ==
    /\ pc = "pass"
    /\ idx >= Len(job.machines)
    /\ pc' = "loop"
    /\ UNCHANGED <<ret, job, config, file, idx, bi, finished, runs, created, live, deleted,
                   startLog, lastOp, lastWritten, finishedObs, tasks0,
                   everAborted, booted, passLog, passStart, expandVars>>

(* main.rs 39-51: probe the task of machine idx, fetch, clear the slot *)

CurMachine == job.machines[idx + 1]

Check ==
    /\ pc = "pass"
    /\ idx < Len(job.machines)
    /\ CurMachine.task # None
    /\ \E f \in BOOLEAN : finished' = CheckResult(CurMachine, f)
    /\ lastOp' = Op("check", CurMachine.id)
    /\ pc' = "fetch"
    /\ passLog' = Append(passLog, CurMachine.id)
    /\ UNCHANGED <<ret, job, config, file, idx, bi, runs, created, live, deleted,
                   startLog, lastWritten, finishedObs, tasks0,
                   everAborted, booted, passStart, expandVars>>

CheckFail ==
    /\ pc = "pass"
    /\ idx < Len(job.machines)
    /\ CurMachine.task # None
    /\ lastOp' = Op("check", CurMachine.id)
    /\ Abort
    /\ passLog' = Append(passLog, CurMachine.id)
    /\ UNCHANGED <<file, created, live, deleted, startLog, lastWritten,
                   finishedObs, booted, passStart, expandVars>>

NoCheck ==
    /\ pc = "pass"
    /\ idx < Len(job.machines)
    /\ CurMachine.task = None
    /\ pc' = "assign"
    /\ passLog' = Append(passLog, CurMachine.id)
    /\ UNCHANGED <<ret, job, config, file, idx, bi, finished, runs, created, live, deleted,
                   startLog, lastOp, lastWritten, finishedObs, tasks0,
                   everAborted, booted, passStart, expandVars>>

\* a bug: the cleared slot is not written to the state file
FetchResultsNoPersist ==
    /\ pc = "fetch"
    /\ Reachable(CurMachine)
    /\ lastOp' = Op("fetch", CurMachine.id)
    /\ IF finished
       THEN /\ job' = [job EXCEPT !.machines[idx + 1].task = None]
            /\ finishedObs' = finishedObs \cup {Unwrap(CurMachine.task).name}
            /\ pc' = "assign"
            /\ UNCHANGED ret
       ELSE /\ pc' = "assign"
            /\ UNCHANGED <<job, finishedObs, ret>>
    /\ UNCHANGED <<config, file, idx, bi, finished, runs, created, live, deleted,
                   startLog, lastWritten, tasks0,
                   everAborted, booted, passLog, passStart, expandVars>>

FetchResults ==
    /\ pc = "fetch"
    /\ Reachable(CurMachine)
    /\ lastOp' = Op("fetch", CurMachine.id)
    /\ IF finished
       THEN /\ job' = [job EXCEPT !.machines[idx + 1].task = None]
            /\ finishedObs' = finishedObs \cup {Unwrap(CurMachine.task).name}
            /\ pc' = "write"
            /\ ret' = "assign"
       ELSE /\ pc' = "assign"
            /\ UNCHANGED <<job, finishedObs, ret>>
    /\ UNCHANGED <<config, file, idx, bi, finished, runs, created, live, deleted,
                   startLog, lastWritten, tasks0,
                   everAborted, booted, passLog, passStart, expandVars>>

FetchResultsFail ==
    /\ pc = "fetch"
    /\ lastOp' = Op("fetch", CurMachine.id)
    /\ Abort
    /\ UNCHANGED <<file, created, live, deleted, startLog, lastWritten,
                   finishedObs, booted, passLog, passStart, expandVars>>

(* main.rs 53-71: give the empty slot the next task, or delete the machine *)

\* a bug: the machine is deleted although the queue still holds work
MayDeleteIgnoringQueue(machine, next) == machine.task = None

MayDelete(machine, next) == machine.task = None /\ next.task = None

\* a bug: the next task is started whether or not the slot is empty
StartOverwrite ==
    /\ pc = "assign"
    /\ Reachable(CurMachine)
    /\ LET next == LoopNextTask(job.tasks)
       IN /\ next.task # None
          /\ startLog' = Append(startLog, [id   |-> CurMachine.id,
                                           name |-> Unwrap(next.task).name,
                                           cmd  |-> Unwrap(next.task).cmd])
          /\ lastOp' = Op("start", CurMachine.id)
          /\ job' = [machines |-> [job.machines EXCEPT ![idx + 1].task = next.task],
                     tasks    |-> next.tasks]
    /\ idx' = idx + 1
    /\ pc' = "write"
    /\ ret' = "pass"
    /\ UNCHANGED <<config, file, bi, finished, runs, created, live, deleted,
                   lastWritten, finishedObs, tasks0,
                   everAborted, booted, passLog, passStart, expandVars>>

Start ==
    /\ pc = "assign"
    /\ CurMachine.task = None
    /\ Reachable(CurMachine)
    /\ LET next == LoopNextTask(job.tasks)
       IN /\ next.task # None
          /\ startLog' = Append(startLog, [id   |-> CurMachine.id,
                                           name |-> Unwrap(next.task).name,
                                           cmd  |-> Unwrap(next.task).cmd])
          /\ lastOp' = Op("start", CurMachine.id)
          /\ job' = [machines |-> [job.machines EXCEPT ![idx + 1].task = next.task],
                     tasks    |-> next.tasks]
    /\ idx' = idx + 1
    /\ pc' = "write"
    /\ ret' = "pass"
    /\ UNCHANGED <<config, file, bi, finished, runs, created, live, deleted,
                   lastWritten, finishedObs, tasks0,
                   everAborted, booted, passLog, passStart, expandVars>>

StartFail ==
    /\ pc = "assign"
    /\ CurMachine.task = None
    /\ LoopNextTask(job.tasks).task # None
    /\ lastOp' = Op("start", CurMachine.id)
    /\ Abort
    /\ UNCHANGED <<file, created, live, deleted, startLog, lastWritten,
                   finishedObs, booted, passLog, passStart, expandVars>>

\* a bug: the index moves on after a removal
DeleteAdvance ==
    /\ pc = "assign"
    /\ MayDelete(CurMachine, LoopNextTask(job.tasks))
    /\ Reachable(CurMachine)
    /\ lastOp' = Op("delete", CurMachine.id)
    /\ live' = live \ {CurMachine.id}
    /\ deleted' = deleted \cup {CurMachine.id}
    /\ job' = [job EXCEPT !.machines = Remove(@, idx)]
    /\ pc' = "write"
    /\ ret' = "pass"
    /\ idx' = idx + 1
    /\ UNCHANGED <<config, file, bi, finished, runs, created, startLog,
                   lastWritten, finishedObs, tasks0,
                   everAborted, booted, passLog, passStart, expandVars>>

Delete ==
    /\ pc = "assign"
    /\ MayDelete(CurMachine, LoopNextTask(job.tasks))
    /\ Reachable(CurMachine)
    /\ lastOp' = Op("delete", CurMachine.id)
    /\ live' = live \ {CurMachine.id}
    /\ deleted' = deleted \cup {CurMachine.id}
    /\ job' = [job EXCEPT !.machines = Remove(@, idx)]
    /\ pc' = "write"
    /\ ret' = "pass"
    /\ UNCHANGED <<config, file, idx, bi, finished, runs, created, startLog,
                   lastWritten, finishedObs, tasks0,
                   everAborted, booted, passLog, passStart, expandVars>>

DeleteFail ==
    /\ pc = "assign"
    /\ MayDelete(CurMachine, LoopNextTask(job.tasks))
    /\ lastOp' = Op("delete", CurMachine.id)
    /\ Abort
    /\ UNCHANGED <<file, created, live, deleted, startLog, lastWritten,
                   finishedObs, booted, passLog, passStart, expandVars>>

\* main.rs 69-71: the slot is still occupied
Keep ==
    /\ pc = "assign"
    /\ CurMachine.task # None
    /\ idx' = idx + 1
    /\ pc' = "pass"
    /\ UNCHANGED <<ret, job, config, file, bi, finished, runs, created, live, deleted,
                   startLog, lastOp, lastWritten, finishedObs, tasks0,
                   everAborted, booted, passLog, passStart, expandVars>>

(* The operator kills the process, and starts it again on the state file *)

Kill ==
    /\ Running
    /\ runs < MaxRuns
    /\ pc' = "killed"
    /\ UNCHANGED <<ret, job, config, file, idx, bi, finished, runs, created, live, deleted,
                   startLog, lastOp, lastWritten, finishedObs, tasks0,
                   everAborted, booted, passLog, passStart, expandVars>>

Restart ==
    /\ pc \in {"killed", "aborted"}
    /\ runs < MaxRuns
    /\ runs' = runs + 1
    /\ pc' = "read"
    /\ ret' = "none"
    /\ job' = [machines |-> <<>>, tasks |-> <<>>]
    /\ idx' = 0
    /\ bi' = 0
    /\ finished' = FALSE
    /\ passStart' = <<>>
    /\ passLog' = <<>>
    /\ UNCHANGED <<config, file, created, live, deleted, startLog, lastOp, lastWritten,
                   finishedObs, tasks0,
                   everAborted, booted, expandVars>>

Next ==
    \/ Read \/ ReadFail
    \/ Create \/ CreateFail \/ ProvisionDone
    \/ WriteOpen \/ WriteOpenFail \/ WriteAll \/ WriteAllFail
    \/ BootInstall \/ BootInstallFail \/ BootCopy \/ BootCopyFail \/ BootSkip \/ BootDone
    \/ LoopEnter \/ LoopExit \/ PassEnd
    \/ Check \/ CheckFail \/ NoCheck \/ FetchResults \/ FetchResultsFail
    \/ Start \/ StartFail \/ Delete \/ DeleteFail \/ Keep
    \/ Kill \/ Restart

Spec == Init /\ [][Next]_vars

\* a run in which every remote call and every write succeeds and nobody kills
\* the process
NextOk ==
    \/ Read
    \/ Create \/ ProvisionDone
    \/ WriteOpen \/ WriteAll
    \/ BootInstall \/ BootCopy \/ BootSkip \/ BootDone
    \/ LoopEnter \/ LoopExit \/ PassEnd
    \/ Check \/ NoCheck \/ FetchResults
    \/ Start \/ Delete \/ Keep

\* main is sequential code: it always takes its next step; and a started
\* task that is probed again and again is once found finished
FairSpec == Init /\ [][NextOk]_vars /\ WF_vars(NextOk) /\ SF_vars(Check /\ finished')

----------------------------------------------------------------------------
(* What the queue and the state file stand for *)

\* the instances a queue expands to under main.rs next_task, in order
RECURSIVE Drain(_)
Drain(tasks) ==
    IF tasks = <<>> THEN <<>>
    ELSE LET next == MainNextTask(tasks)
         IN <<Unwrap(next.task)>> \o Drain(next.tasks)

Names(tasks) == {tasks[i].name : i \in DOMAIN tasks}

SlotNames(machines) ==
    {Unwrap(machines[i].task).name : i \in {k \in DOMAIN machines : machines[k].task # None}}

Ids(machines) == {machines[i].id : i \in DOMAIN machines}

Recoverable == Names(Drain(file.tasks)) \cup SlotNames(file.machines)

----------------------------------------------------------------------------
(* Claims about main() *)

\* C1 (as claimed): across all runs, kills and restarts included, the remote
\* start command is issued at most once per task instance.
C1_StartedAtMostOnce ==
    ~everAborted =>
    \A i, j \in DOMAIN startLog :
        i # j => startLog[i].name # startLog[j].name

\* C2 (as claimed): when provisioning is over, whatever kills and restarts
\* happened during it, every droplet created remotely is in the persisted pool
\* and the number of remote creates equals the target pool size.
C2_ProvisionedExactly ==
    (pc = "bootstrap" /\ ~everAborted /\ startLog = <<>> /\ deleted = {})
        => /\ live = Ids(file.machines)
           /\ created = MainMaxMachines(tasks0, config)

\* C3: remote delete is issued for a machine only when the task queue is empty
\* and the slot of that machine is empty; the machine deleted is the one
\* examined, and no machine whose slot holds a task is ever among the deleted.
C3_DeleteOnlyWhenDrained ==
    [][deleted' # deleted =>
          /\ job.tasks = <<>>
          /\ CurMachine.task = None
          /\ deleted' = deleted \cup {CurMachine.id}
          /\ \A i \in DOMAIN job'.machines :
                job'.machines[i].task # None => job'.machines[i].id \notin deleted'
      ]_vars

\* C3 witness: a machine has been deleted while another still holds its task
C3_Witness ==
    /\ deleted # {}
    /\ \E i \in DOMAIN job.machines : job.machines[i].task # None

\* C7 (as claimed): whenever a run returns success, the task queue and the
\* machine pool are empty, in memory and in the state file.
C7_SuccessMeansDrained ==
    pc = "done" =>
        /\ job.tasks = <<>> /\ job.machines = <<>>
        /\ file.tasks = <<>> /\ file.machines = <<>>

\* C8 (as claimed, at termination): a run in which no remote call failed and
\* that was never interrupted ends with an empty pool, no droplet left, and
\* every task instance of the initial queue dispatched exactly once.
C8_AllDispatchedOnce ==
    (pc = "done" /\ runs = 1) =>
        /\ job.machines = <<>>
        /\ live = {}
        /\ Names(startLog) = Names(Drain(tasks0))
        /\ Len(startLog) = Len(Drain(tasks0))

\* C8, the termination half alone (holds under FairSpec): the run ends.
C8_Terminates == <>(pc = "done")

\* C9 (as claimed): at every point between two writes, and after any kill or
\* abort, every task instance not yet observed finished is in the state file,
\* expandable from its queue or held in one of its slots.
C9_NoTaskLost ==
    pc # "write_all" =>
        (Names(Drain(tasks0)) \ finishedObs) \subseteq Recoverable

\* C10 (as claimed): after an abort the state file is exactly what the last
\* successful write left.
C10_AbortLeavesFile ==
    pc = "aborted" => file = lastWritten

----------------------------------------------------------------------------
(* ExpandSpec: a queue is drained by next_task, one call per step *)

\* the ranges [start, start + width): start <= end, as usize subtraction needs;
\* the starts 8 and 9 make the index grow from one decimal digit to two
RangeOf(start, end) == Some([start |-> start, end |-> end])
Starts == {0, 1, 8, 9}
Ranges == {RangeOf(s, s + w) : s \in Starts, w \in 0..MaxWidth}

\* the templates: "t{{index}}" and "u{{index}}" replicated, "s" single
TemplateT(range) == Task(<<"t", Placeholder>>, <<"e", "c", "h", "o", " ", Placeholder>>, None, range)
TemplateU(range) == Task(<<"u", Placeholder>>, <<"l", "s", " ", Placeholder>>, None, range)
TemplateS == Task(<<"s">>, <<"y">>, None, None)

RangeQueues ==
    LET R == Ranges
    IN {<<>>, <<TemplateS>>}
       \cup {<<TemplateT(r)>> : r \in R}
       \cup {<<TemplateT(r), TemplateS>> : r \in R}
       \cup {<<TemplateS, TemplateT(r)>> : r \in R}
       \cup {<<TemplateT(r), TemplateU(RangeOf(0, 2))>> : r \in R}

RepeatQueues == Queues \cup {<<TemplateB, TemplateA(r)>> : r \in Repeats}

MainIdle ==
    /\ pc = "expand"
    /\ ret = "none"
    /\ job = [machines |-> <<>>, tasks |-> <<>>]
    /\ tasks0 = <<>>
    /\ file = [ok |-> TRUE, machines |-> <<>>, tasks |-> <<>>]
    /\ idx = 0
    /\ bi = 0
    /\ finished = FALSE
    /\ runs = 0
    /\ created = 0
    /\ live = {}
    /\ deleted = {}
    /\ startLog = <<>>
    /\ lastOp = NoOp
    /\ lastWritten = file
    /\ finishedObs = {}
    /\ everAborted = FALSE
    /\ booted = {}
    /\ passStart = <<>>
    /\ passLog = <<>>

ExpandInit ==
    /\ MainIdle
    /\ config \in 0..MaxCfgMachines
    /\ \/ xscheme = "range" /\ xq0 \in RangeQueues
       \/ xscheme = "repeat" /\ xq0 \in RepeatQueues
    /\ xq = xq0
    /\ xout = <<>>

\* one call of Job::next_task (job.rs) that returns a task
ExpandRange ==
    /\ xscheme = "range"
    /\ LET next == JobNextTask(xq)
       IN /\ next.task # None
          /\ xq' = next.tasks
          /\ xout' = Append(xout, Unwrap(next.task))
    /\ UNCHANGED <<mainVars, xscheme, xq0>>

\* one call of next_task (main.rs) that returns a task
ExpandRepeat ==
    /\ xscheme = "repeat"
    /\ LET next == MainNextTask(xq)
       IN /\ next.task # None
          /\ xq' = next.tasks
          /\ xout' = Append(xout, Unwrap(next.task))
    /\ UNCHANGED <<mainVars, xscheme, xq0>>

ExpandNext == ExpandRange \/ ExpandRepeat

ExpandSpec == ExpandInit /\ [][ExpandNext]_vars

\* next_task returns nothing: the queue is exhausted
Exhausted ==
    IF xscheme = "range" THEN JobNextTask(xq).task = None
    ELSE MainNextTask(xq).task = None

\* the queue started as one template with a range of width >= 1
OneRanged ==
    /\ xscheme = "range"
    /\ Len(xq0) = 1
    /\ IsSome(xq0[1].range)
    /\ Unwrap(xq0[1].range).end > Unwrap(xq0[1].range).start

\* what the initial tag of a template announces, as the specification counts it
Multiplicity(task) ==
    IF IsSome(task.range)
    THEN Cardinality(Unwrap(task.range).start .. (Unwrap(task.range).end - 1))
    ELSE 1

----------------------------------------------------------------------------
(* Claims about next_task and max_machines *)

\* C4: from a queue holding one template with range [s, e), e > s, the calls
\* of next_task return, in this order, the instances of indices s, s+1, ...:
\* the i-th has the placeholder replaced by the decimal form of s+i-1, no two
\* have the same name, the residual left in the queue starts at the next index,
\* and when next_task returns nothing exactly e - s instances were returned.
C4_ExpansionInOrder ==
    OneRanged =>
        LET s == Unwrap(xq0[1].range).start
            e == Unwrap(xq0[1].range).end
        IN /\ \A i \in DOMAIN xout :
                /\ s + i - 1 < e
                /\ xout[i].name = <<"t">> \o ToString(s + i - 1)
                /\ xout[i].cmd = <<"e", "c", "h", "o", " ">> \o ToString(s + i - 1)
           /\ \A i, j \in DOMAIN xout : i # j => xout[i].name # xout[j].name
           /\ ~Exhausted => /\ Len(xq) = 1
                            /\ Unwrap(xq[1].range).start = s + Len(xout)
                            /\ Unwrap(xq[1].range).end = e
           /\ Exhausted => Len(xout) = e - s

\* C4 witness: the range [8, 11) was drained: three instances, the last two
\* with a two-digit index
C4_Witness ==
    /\ OneRanged
    /\ Exhausted
    /\ Len(xout) = 3
    /\ Unwrap(xq0[1].range).start = 8
    /\ xout[3].name = <<"t", "1", "0">>

\* C4 witness of width 1: one instance, nothing re-enqueued
C4_WitnessWidthOne ==
    /\ OneRanged
    /\ Exhausted
    /\ Len(xout) = 1

\* C5 (as claimed): every instance next_task returned from a replicated
\* template carries no replication tag, neither range nor repeat.
C5_NoResidualTag ==
    \A i \in DOMAIN xout : xout[i].range = None /\ xout[i].repeat = None

\* C6: max_machines is the minimum of config.max_machines and the sum of the
\* multiplicities (range width, or 1 without a range) of the queued templates;
\* it exceeds neither config.max_machines nor the number of instances that
\* draining the queue then produces.
C6_PoolSizeBound ==
    xscheme = "range" =>
        LET target == JobMaxMachines(xq0, config)
            total == SumSeq([i \in DOMAIN xq0 |-> Multiplicity(xq0[i])])
        IN /\ target = IF total < config THEN total ELSE config
           /\ target <= config
           /\ Exhausted => target <= Len(xout)

\* C6 witness: a mix of a replicated and a single template whose volume is
\* below the ceiling, and one whose volume is above it, drained
C6_Witness ==
    /\ xscheme = "range"
    /\ Exhausted
    /\ Len(xq0) = 2
    /\ \E i \in DOMAIN xq0 : IsSome(xq0[i].range)
    /\ \E i \in DOMAIN xq0 : xq0[i].range = None
    /\ JobMaxMachines(xq0, config) = Len(xout)
    /\ Len(xout) = 2

----------------------------------------------------------------------------
(* Claims about the bootstrap and the order of the remote operations *)

\* a remote operation is issued by this step (it may fail)
InstallIssued == BootInstall \/ BootInstallFail
FetchIssued == FetchResults \/ FetchResultsFail

\* C11 (as claimed): in the bootstrap of a machine the copy of the binary and
\* inputs comes first: when the install command is issued, the operation before
\* it was the copy to that same machine.
C11_CopyBeforeInstall ==
    [][InstallIssued => (lastOp.kind = "copy" /\ lastOp.id = BootMachine.id)]_vars

\* the machine was given a task at some time
Held(id) == \E i \in DOMAIN startLog : startLog[i].id = id

\* C12 (as claimed): a machine is bootstrapped once over all runs: the install
\* command is never issued to a machine whose bootstrap was completed before,
\* nor to one that has ever held a task.
C12_BootstrappedOnce ==
    [][(~everAborted /\ InstallIssued)
          => (BootMachine.id \notin booted /\ ~Held(BootMachine.id))]_vars

\* C13 (as claimed, fetch_partial_results at its default): results are fetched
\* only for a task the probe found finished.
C13_FetchOnlyWhenFinished ==
    [][FetchIssued => finished]_vars

\* C16 (as claimed): once the remote delete of a machine has been issued, no
\* later remote operation addresses that machine, in this run or a later one.
C16_NoOpAfterDelete ==
    [][(~everAborted /\ lastOp' # lastOp) => lastOp'.id \notin deleted]_vars

----------------------------------------------------------------------------
(* Claims about the order of the queue and the two counts of a template *)

\* more than one instance of the template remains
MoreThanOne(task) ==
    \/ IsSome(task.range) /\ Unwrap(task.range).end - Unwrap(task.range).start > 1
    \/ IsSome(task.repeat) /\ Unwrap(task.repeat) > 1

\* the template that stands for the instances not yet produced
Residual(task) ==
    IF IsSome(task.range)
    THEN [task EXCEPT !.range = Some([start |-> Unwrap(task.range).start + 1,
                                      end   |-> Unwrap(task.range).end])]
    ELSE [task EXCEPT !.repeat = Some(Unwrap(task.repeat) - 1)]

IsPrefix(s, t) == Len(s) <= Len(t) /\ s = SubSeq(t, 1, Len(s))

NameSeq(tasks) == [i \in DOMAIN tasks |-> tasks[i].name]

ExampleRange == <<TemplateT(RangeOf(0, 3)), TemplateS>>
ExampleRepeat == <<TemplateA(Some(2)), TemplateB>>

\* C19: when next_task pops a template with more than one instance remaining,
\* the templates behind it move up and its residual (start + 1, or repeat - 1)
\* becomes the last element of the queue; so [A with range [0,3), B] is produced
\* in the order A0, B, A1, A2, and [a with repeat 2, b] as a_2, b, a_1.
C19_ResidualAtTail ==
    [][/\ (xq # <<>> /\ MoreThanOne(Head(xq)))
            => xq' = Tail(xq) \o <<Residual(Head(xq))>>
       /\ xq0 = ExampleRange
            => IsPrefix(NameSeq(xout'), <<<<"t", "0">>, <<"s">>, <<"t", "1">>, <<"t", "2">>>>)
       /\ xq0 = ExampleRepeat
            => IsPrefix(NameSeq(xout'), <<<<"a", "_", "2">>, <<"b">>, <<"a", "_", "1">>>>)
      ]_vars

\* C19 witness: [A with range [0,3), B] was drained, in four calls
C19_Witness ==
    /\ xq0 = ExampleRange
    /\ Exhausted
    /\ Len(xout) = 4

\* C20 (as claimed): for a queue of one template, the multiplicity that
\* max_machines counts (with a ceiling that does not bind) is the number of
\* instances next_task produces from it.
C20_CountsAgree ==
    (Len(xq0) = 1 /\ Exhausted) =>
        Len(xout) = IF xscheme = "range"
                    THEN JobMaxMachines(xq0, Len(xout) + 1)
                    ELSE MainMaxMachines(xq0, Len(xout) + 1)

----------------------------------------------------------------------------
(* Claims about the slots *)

\* a task is started by this step
StartIssued == startLog' # startLog

\* the slot of machine i of job.machines is cleared by this step
ClearedAt(i) ==
    /\ i \in DOMAIN job.machines
    /\ i \in DOMAIN job'.machines
    /\ job'.machines[i].id = job.machines[i].id
    /\ job.machines[i].task # None
    /\ job'.machines[i].task = None

\* the state file holds the machine with an empty slot
PersistedEmpty(id) ==
    /\ file.ok
    /\ \E i \in DOMAIN file.machines :
          file.machines[i].id = id /\ file.machines[i].task = None

\* C14: in every in-memory state no instance is both in a slot and still
\* expandable from the queue, a slot holds at most one instance, no two slots
\* hold the same instance, and a task is started only on the machine examined,
\* whose slot is empty at that moment and holds exactly that task afterwards.
C14_SlotExclusive ==
    /\ [](/\ Names(Drain(job.tasks)) \cap SlotNames(job.machines) = {}
          /\ \A i \in DOMAIN job.machines : Len(job.machines[i].task) <= 1
          /\ \A i, j \in DOMAIN job.machines :
                (i # j /\ job.machines[i].task # None)
                    => job.machines[i].task # job.machines[j].task)
    /\ [][StartIssued =>
            /\ CurMachine.task = None
            /\ startLog'[Len(startLog')].id = CurMachine.id
            /\ job'.machines[idx + 1].id = CurMachine.id
            /\ job'.machines[idx + 1].task # None
            /\ Unwrap(job'.machines[idx + 1].task).name = startLog'[Len(startLog')].name
            /\ \A i \in DOMAIN job.machines :
                  i # idx + 1 => job'.machines[i] = job.machines[i]
         ]_vars

\* C14 witness: a slot holds a task while the queue still holds work, and
\* more than one task has been started
C14_Witness ==
    /\ job.tasks # <<>>
    /\ \E i \in DOMAIN job.machines : job.machines[i].task # None
    /\ Len(startLog) >= 2

\* C17: a slot is cleared only in the step in which the result fetch for its
\* task succeeds, after the probe of that machine reported the task finished,
\* and the write of the state file comes next; and a task is started only on
\* a machine that the state file holds with an empty slot.
C17_ClearThenPersist ==
    [][/\ \A i \in DOMAIN job.machines :
            ClearedAt(i) =>
                /\ i = idx + 1
                /\ pc = "fetch"
                /\ finished
                /\ lastOp = Op("check", CurMachine.id)
                /\ lastOp' = Op("fetch", CurMachine.id)
                /\ Reachable(CurMachine)
                /\ pc' = "write"
       /\ StartIssued => PersistedEmpty(CurMachine.id)
      ]_vars

\* C17 witness: a machine whose slot was cleared has been given a new task
C17_Witness ==
    \E i, j \in DOMAIN startLog :
        /\ i < j
        /\ startLog[i].id = startLog[j].id
        /\ startLog[i].name \in finishedObs
        /\ startLog[i].name # startLog[j].name

----------------------------------------------------------------------------
(* Claims about the removal of a machine during a pass *)

----------------------------------------------------------------------------
(* The worked example: one template "t" with the command                     *)
(* "echo {{index}}" and the range [0, 3), max_machines 5, every remote call  *)
(* and every write succeeding.  main() of main.rs runs with next_task and    *)
(* max_machines of job.rs.                                                   *)

ScenarioInit ==
    /\ pc = "read"
    /\ ret = "none"
    /\ job = [machines |-> <<>>, tasks |-> <<>>]
    /\ config = 5
    /\ tasks0 = <<Task(<<"t">>, <<"e", "c", "h", "o", " ", Placeholder>>,
                       None, RangeOf(0, 3))>>
    /\ file = [ok |-> TRUE, machines |-> <<>>, tasks |-> tasks0]
    /\ idx = 0
    /\ bi = 0
    /\ finished = FALSE
    /\ runs = 1
    /\ created = 0
    /\ live = {}
    /\ deleted = {}
    /\ startLog = <<>>
    /\ lastOp = NoOp
    /\ lastWritten = file
    /\ finishedObs = {}
    /\ everAborted = FALSE
    /\ booted = {}
    /\ passStart = <<>>
    /\ passLog = <<>>
    /\ xscheme = "range"
    /\ xq0 = <<>>
    /\ xq = <<>>
    /\ xout = <<>>

ScenarioNext ==
    \/ Read
    \/ Create \/ ProvisionDone
    \/ WriteOpen \/ WriteAll
    \/ BootInstall \/ BootCopy \/ BootDone
    \/ LoopEnter \/ LoopExit \/ PassEnd
    \/ Check \/ NoCheck \/ FetchResults
    \/ Start \/ Delete \/ Keep

ScenarioSpec == ScenarioInit /\ [][ScenarioNext]_vars

\* the commands started so far, in order
CmdSeq(log) == [i \in DOMAIN log |-> log[i].cmd]

Echo(d) == <<"e", "c", "h", "o", " ", d>>

====
